---------------------------- MODULE Spec2Model ----------------------------
(***************************************************************************)
(* A model of the ExoAI front end: the i18n layer (language selection at   *)
(* start-up, the languageChanged handler), the page components that call   *)
(* the backend (DataUpload, Adversarial, Quantum), the onboarding wizard,  *)
(* and the locale tooling (generate_i18n_report, i18n_audit, auto_translate).*)
(*                                                                         *)
(* The router mounts one page at a time and every script is its own        *)
(* process, so each part has its own specification over the same           *)
(* variables: SpecI18n, SpecUI, SpecAudit, SpecTranslate.                  *)
(***************************************************************************)
EXTENDS Integers, Sequences, FiniteSets, TLC

VARIABLES
    \* ---- i18n (src/scripts/i18n_audit.sh lines 98-234 hold src/i18n/index.ts)
    pc,                 \* "init": module evaluated up to line 200; "ready": after line 226
    language,           \* i18n.language
    queryLang,          \* the lng query parameter, "" when absent
    preferredLanguage,  \* localStorage["preferred-language"], "" when absent
    docDir,             \* document.documentElement.dir
    docLang,            \* document.documentElement.lang
    langArabic,         \* "lang-arabic" in document.documentElement.classList
    hasTitle,           \* document.querySelector("title") is not null
    titleText,          \* its textContent
    originalTitle,      \* documentElement.dataset.originalTitle, "" when unset
    titleAtLoad,        \* history: the textContent of the title when the page loaded
    hasDesc,            \* document.querySelector('meta[name="description"]') is not null
    descContent,        \* its content attribute
    originalDesc,       \* documentElement.dataset.originalDesc, "" when unset
    currentLang,        \* the constant of line 210, "" before it is computed
    \* history of the i18n run, read by the properties only
    lastOp,             \* "none", "startup" or "languageChanged"
    requested,          \* the argument of the last i18n.changeLanguage call
    storedAtLoad,       \* preferredLanguage when the module was loaded
    detectedLang,       \* i18n.language when the module was loaded
    switches,           \* number of changeLanguage calls after start-up
    \* ---- the mounted page (the router of App.tsx mounts one page at a time)
    page,               \* "DataUpload", "Adversarial", "Quantum", "Onboarding" or "none"
    \* ---- DataUpload (src/src/pages/DataUpload.tsx)
    uploadedFile,       \* 0 for null, else the number of the file dropped
    isUploading,
    isAnalyzing,
    uploadProgress,
    dataProfile,        \* 0 for null, else the upload whose analysis result it holds
    actionPlan,         \* likewise
    error,              \* "" for null
    activeTab,
    uploads,            \* per call of uploadAndAnalyze: what it awaits, and its progress interval
    actionsInFlight,    \* create_embeddings requests of handleActionClick not yet answered
    navigated,          \* window.location.href was assigned: the page is being left
    \* ---- Adversarial / Quantum (src/src/pages/Adversarial.tsx, Quantum.tsx)
    isProcessing,
    progress,
    results,            \* "null", "data" (the backend's answer) or "mock"
    runs,               \* per call of the Launch handler: what it awaits
    \* ---- Onboarding (src/unnamed/part_004)
    currentStep,
    completedSteps,     \* the list, duplicates and order kept
    isTraining,
    trainingProgress,
    selectedDataset,    \* "" for null
    uploadedData,       \* FALSE for null
    trainingIntervals,  \* active intervals of startTraining: the currentStep each closed over
    demoTimers,         \* pending timeouts of selectDemoDataset, oldest first: the
                        \* currentStep the nextStep each will call closed over
    wizardUploads,      \* calls of processFile of the wizard's DataUploader whose
                        \* 2 s timer is pending: the currentStep the nextStep of
                        \* their onDataUploaded closed over
    \* ---- locale tooling (scripts/generate_i18n_report.js, i18n_audit.sh,
    \*      i18n_audit.js, auto_translate.js)
    script,             \* the script that runs: "sh", "js" (the two audits) or "translate"
    enData,             \* content of en.json, or Absent
    arData,             \* content of ar.json, or Absent
    esData,             \* content of es.json, or Absent
    missingFile,        \* ar.missing.json: "absent", "invalid", "empty" ({}) or "keys"
    report,             \* content of i18n-report.json, or Absent
    toolPc,             \* the step the script is at
    exitCode,           \* its exit status once toolPc = "done"
    arBefore,           \* history: ar.json as the script found it
    \* ---- DataUploader (src/unnamed/part_001); its isProcessing,
    \*      uploadProgress and error are the variables of those names above
    dataPreview,        \* TRUE once the mock preview is set (null before)
    processCalls,       \* calls of processFile whose 2 s timer is pending
    onDataUploadedCalls, \* history: the files onDataUploaded was called for
    \* ---- ChatWidget (src/src/components/ChatWidget.tsx); its error is the
    \*      variable of that name above
    messages,           \* the chat: records of role, content and language
    inputValue,         \* "" , " " (blank) or "q"
    isLoading,
    apiKey,             \* TRUE if the build has VITE_GEMINI_API_KEY
    chatRequests,       \* calls of sendMessage awaiting model.generateContent:
                        \* the isRTL and currentLanguage each closed over
    sends,              \* history: runs of sendMessage that passed its guard
    generateCalls,      \* history: calls of model.generateContent
    chatFailures,       \* history: runs of the catch block of sendMessage
    sentIn,             \* history: the language the last message was sent in
    \* ---- Demo (src/src/lib/i18n-utils.ts lines 262-848)
    threshold,          \* threshold[0], in hundredths
    learningRate,       \* learningRate[0], in ten-thousandths
    epochs,             \* epochs[0]
    jobRunning,
    jobProgress,
    jobResults,         \* <<>> for null; probabilities in ten-thousandths
    jobIntervals,       \* the interval of handleRunJob: its current and the
                        \* learningRate and epochs it closed over
    uploadedName,       \* "" for null
    uploadedCurve,      \* <<>> for null
    uploadedText,       \* history: the text of the file read last
    \* ---- history of the backend calls, read by the properties only
    lastCall            \* the call whose continuation ran in the last step, or NoCall

i18nVars == <<pc, language, queryLang, preferredLanguage, docDir, docLang,
              langArabic, hasTitle, titleText, originalTitle, titleAtLoad,
              hasDesc,
              descContent, originalDesc, currentLang, lastOp, requested,
              storedAtLoad, detectedLang, switches>>

pageVars == <<page, uploadedFile, isUploading, isAnalyzing, uploadProgress,
              dataProfile, actionPlan, error, activeTab, uploads,
              actionsInFlight, navigated, isProcessing, progress, results,
              runs, lastCall>>

wizardVars == <<currentStep, completedSteps, isTraining, trainingProgress,
                selectedDataset, uploadedData, trainingIntervals, demoTimers,
                wizardUploads>>

toolVars == <<script, enData, arData, esData, missingFile, report, toolPc,
              exitCode, arBefore>>

uploaderVars == <<dataPreview, processCalls, onDataUploadedCalls>>

chatVars == <<messages, inputValue, isLoading, apiKey, chatRequests, sends,
              generateCalls, chatFailures, sentIn>>

sandboxVars == <<uploadedName, uploadedCurve, uploadedText>>

demoVars == <<threshold, learningRate, epochs, jobRunning, jobProgress, jobResults,
              jobIntervals, sandboxVars>>

widgetVars == <<uploaderVars, chatVars, demoVars>>

vars == <<i18nVars, pageVars, wizardVars, toolVars, widgetVars>>

-----------------------------------------------------------------------------
(* Bounds of the model                                                     *)

MaxSwitches == 3    \* language switches after start-up
MaxUploads == 2     \* calls of uploadAndAnalyze
MaxActions == 1     \* unanswered create_embeddings requests
MaxRuns == 2        \* slots for calls of a Launch handler
MaxIntervals == 2   \* slots for intervals of startTraining
MaxTimers == 3      \* pending timeouts of selectDemoDataset
MaxCompleted == 6   \* length of completedSteps
MaxFlatKeys == 20   \* keys of the flat locale files
MaxFiles == 2       \* calls of DataUploader's processFile pending at a time
MaxSends == 2       \* chat messages sent

-----------------------------------------------------------------------------
(* State of the parts that a specification does not run                    *)

NoCall == [handler |-> "none", outcome |-> "none"]

IdleUploads == [k \in 1..MaxUploads |-> [phase |-> "idle", interval |-> FALSE]]
IdleRuns == [r \in 1..MaxRuns |-> [phase |-> "idle", i |-> 0]]

\* useState initial values of DataUpload (lines 81-88) and Adversarial (43-49)
InitialPageState ==
    /\ uploadedFile = 0 /\ isUploading = FALSE /\ isAnalyzing = FALSE
    /\ uploadProgress = 0 /\ dataProfile = 0 /\ actionPlan = 0
    /\ error = "" /\ activeTab = "upload"
    /\ uploads = IdleUploads /\ actionsInFlight = 0 /\ navigated = FALSE
    /\ isProcessing = FALSE /\ progress = 0 /\ results = "null"
    /\ runs = IdleRuns
    /\ lastCall = NoCall

\* useState initial values of Onboarding (part_004 lines 156-161)
InitialWizardState ==
    /\ currentStep = 0 /\ completedSteps = <<>>
    /\ isTraining = FALSE /\ trainingProgress = 0
    /\ selectedDataset = "" /\ uploadedData = FALSE
    /\ trainingIntervals = <<>> /\ demoTimers = <<>> /\ wizardUploads = <<>>

NoPage == page = "none" /\ InitialPageState /\ InitialWizardState

Absent == [t |-> "absent"]

NoUploader == dataPreview = FALSE /\ processCalls = <<>> /\ onDataUploadedCalls = <<>>

InitialChatState ==
    /\ messages = <<>> /\ inputValue = "" /\ isLoading = FALSE
    /\ chatRequests = <<>> /\ sends = 0 /\ generateCalls = 0
    /\ chatFailures = 0 /\ sentIn = ""

NoChat == InitialChatState /\ apiKey = FALSE

InitialDemoState ==
    /\ threshold = 50 /\ learningRate = 10 /\ epochs = 10
    /\ jobRunning = FALSE /\ jobProgress = 0 /\ jobResults = <<>>
    /\ jobIntervals = <<>>
    /\ uploadedName = "" /\ uploadedCurve = <<>> /\ uploadedText = <<>>

NoWidget == NoUploader /\ NoChat /\ InitialDemoState

NoTool ==
    /\ script = "none" /\ enData = Absent /\ arData = Absent /\ esData = Absent
    /\ missingFile = "absent" /\ report = Absent /\ toolPc = "done"
    /\ exitCode = 0 /\ arBefore = Absent

NoI18n ==
    /\ pc = "ready" /\ language = "en" /\ queryLang = "" /\ preferredLanguage = ""
    /\ docDir = "ltr" /\ docLang = "en" /\ langArabic = FALSE
    /\ hasTitle = FALSE /\ titleText = "" /\ originalTitle = "" /\ titleAtLoad = ""
    /\ hasDesc = FALSE /\ descContent = "" /\ originalDesc = ""
    /\ currentLang = "en" /\ lastOp = "none" /\ requested = ""
    /\ storedAtLoad = "" /\ detectedLang = "en" /\ switches = 0

-----------------------------------------------------------------------------
(* i18n: src/i18n/index.ts                                                 *)

supportedLngs == {"en", "es", "ar"}
fallbackLng == "en"

\* Language codes a caller (the switcher, a test, the query string) may pass.
LangCodes == supportedLngs \cup {"fr", "ar-SA"}

\* i18next sets and announces the language it resolves the request to. A
\* supported code resolves to itself; for any other code the library version
\* decides between keeping the code and the fallback language.
ResolveLanguage(lng) ==
    IF lng \in supportedLngs THEN {lng} ELSE {lng, fallbackLng}

ArabicTitle == "ExoPlanetAI - ar"
ArabicDesc == "desc - ar"

Dir(lng) == IF lng = "ar" THEN "rtl" ELSE "ltr"

\* the class is added for Arabic and never removed again
SetRootAttributesKeepClass(lng) ==
    /\ docDir' = Dir(lng)
    /\ docLang' = lng
    /\ langArabic' = (langArabic \/ lng = "ar")

\* lines 143-155 (and 218-226): direction, lang attribute, CSS class
SetRootAttributes(lng) ==
    /\ docDir' = Dir(lng)
    /\ docLang' = lng
    /\ langArabic' = (lng = "ar")

\* lines 157-180: remember the original title once, then set the title
NewOriginalTitleStoresAgain ==
    IF hasTitle THEN titleText ELSE originalTitle

NewOriginalTitle ==
    IF originalTitle = "" /\ hasTitle THEN titleText ELSE originalTitle

UpdateTitle(lng) ==
    /\ originalTitle' = NewOriginalTitle
    /\ titleText' = IF ~hasTitle THEN titleText
                    ELSE IF lng = "ar" /\ NewOriginalTitle # "" THEN ArabicTitle
                    ELSE NewOriginalTitle

\* lines 159, 166-169, 182-192: the same for the description meta tag
NewOriginalDesc ==
    IF originalDesc = "" /\ hasDesc THEN descContent ELSE originalDesc

UpdateDesc(lng) ==
    /\ originalDesc' = NewOriginalDesc
    /\ descContent' = IF ~hasDesc THEN descContent
                      ELSE IF lng = "ar" /\ NewOriginalDesc # "" THEN ArabicDesc
                      ELSE NewOriginalDesc

StorePreferenceOnlyArabic(lng) ==
    preferredLanguage' = IF lng = "ar" THEN lng ELSE preferredLanguage

\* lines 194-195
StorePreference(lng) == preferredLanguage' = lng

\* a || b || c || d of JavaScript on strings and null: the first non-empty one
FirstTruthyStoredFirst(a, b, c, d) ==
    IF b # "" THEN b ELSE IF a # "" THEN a ELSE IF c # "" THEN c ELSE d

FirstTruthy(a, b, c, d) ==
    IF a # "" THEN a ELSE IF b # "" THEN b ELSE IF c # "" THEN c ELSE d

InitI18n ==
    /\ pc = "init"
    /\ language \in supportedLngs \cup {""}
    /\ queryLang \in LangCodes \cup {""}
    /\ preferredLanguage \in LangCodes \cup {""}
    /\ docDir = "ltr" /\ docLang = "en" /\ langArabic = FALSE
    /\ hasTitle \in BOOLEAN
    /\ titleText \in (IF hasTitle THEN {"ExoPlanetAI", ""} ELSE {""})
    /\ originalTitle = ""
    /\ titleAtLoad = titleText
    /\ hasDesc \in BOOLEAN
    /\ descContent \in (IF hasDesc THEN {"desc"} ELSE {""})
    /\ originalDesc = ""
    /\ currentLang = ""
    /\ lastOp = "none"
    /\ requested = ""
    /\ storedAtLoad = preferredLanguage
    /\ detectedLang = language
    /\ switches = 0
    /\ NoPage
    /\ NoTool
    /\ NoWidget

\* lines 202-226: the module's start-up code, run once when it is imported
Startup ==
    /\ pc = "init"
    /\ pc' = "ready"
    /\ LET cur == FirstTruthy(queryLang, preferredLanguage, language, "en") IN
       /\ currentLang' = cur
       /\ IF cur # language
          THEN \E l \in ResolveLanguage(cur) :
                  /\ language' = l
                  /\ requested' = cur
                  /\ UpdateTitle(l) /\ UpdateDesc(l) /\ StorePreference(l)
          ELSE UNCHANGED <<language, requested, titleText, originalTitle,
                           descContent, originalDesc, preferredLanguage>>
       \* lines 218-226 overwrite what the handler set on the root element
       /\ SetRootAttributes(cur)
    /\ lastOp' = "startup"
    /\ UNCHANGED <<queryLang, hasTitle, hasDesc, storedAtLoad, detectedLang, switches,
                   titleAtLoad>>
    /\ UNCHANGED <<pageVars, wizardVars, toolVars, widgetVars>>

\* i18n.changeLanguage(lng) followed by the languageChanged handler, lines 142-200
ChangeLanguage(lng) ==
    /\ pc = "ready"
    /\ switches < MaxSwitches
    /\ switches' = switches + 1
    /\ requested' = lng
    /\ \E l \in ResolveLanguage(lng) :
          /\ language' = l
          /\ SetRootAttributes(l)
          /\ UpdateTitle(l) /\ UpdateDesc(l) /\ StorePreference(l)
    /\ lastOp' = "languageChanged"
    /\ UNCHANGED <<pc, queryLang, hasTitle, hasDesc, currentLang, storedAtLoad,
                   detectedLang, titleAtLoad>>
    /\ UNCHANGED <<pageVars, wizardVars, toolVars, widgetVars>>

SwitchLanguage == \E lng \in LangCodes : ChangeLanguage(lng)

NextI18n == Startup \/ SwitchLanguage

SpecI18n == InitI18n /\ [][NextI18n]_vars

-----------------------------------------------------------------------------
(* DataUpload: src/src/pages/DataUpload.tsx                                *)

\* What a fetch and the reading of its body can end in: an OK response with a
\* JSON body, a response that is not OK, a rejected fetch, an OK response whose
\* body is not JSON.
Outcomes == {"ok", "notok", "throw", "badjson"}
Failures == {"notok", "throw"}

FreeUpload == CHOOSE k \in 1..MaxUploads :
                 /\ uploads[k].phase = "idle"
                 /\ \A j \in 1..MaxUploads : uploads[j].phase = "idle" => k <= j

\* lines 92-122 with lines 135-160: a file is dropped on the drop zone, which
\* the upload tab renders (line 529); the accepted file starts uploadAndAnalyze,
\* which runs up to its first await
onDrop(extAllowed, sizeAllowed) ==
    /\ page = "DataUpload" /\ ~navigated /\ activeTab = "upload"
    /\ IF ~extAllowed
       THEN /\ error' = "unsupportedFormat"
            /\ UNCHANGED <<uploadedFile, isUploading, isAnalyzing,
                           uploadProgress, activeTab, uploads>>
       ELSE IF ~sizeAllowed
       THEN /\ error' = "fileTooLarge"
            /\ UNCHANGED <<uploadedFile, isUploading, isAnalyzing,
                           uploadProgress, activeTab, uploads>>
       ELSE /\ \E k \in 1..MaxUploads : uploads[k].phase = "idle"
            /\ uploadedFile' = FreeUpload
            /\ error' = ""
            /\ activeTab' = "upload"
            /\ isUploading' = TRUE
            /\ isAnalyzing' = FALSE
            /\ uploadProgress' = 0
            /\ uploads' = [uploads EXCEPT ![FreeUpload] =
                              [phase |-> "upload", interval |-> TRUE]]
    /\ lastCall' = NoCall
    /\ UNCHANGED <<page, dataProfile, actionPlan, actionsInFlight, navigated,
                   isProcessing, progress, results, runs>>
    /\ UNCHANGED <<i18nVars, wizardVars, toolVars, widgetVars>>

DropFile == \E extAllowed \in BOOLEAN, sizeAllowed \in BOOLEAN :
                onDrop(extAllowed, sizeAllowed)

\* lines 143-151: one callback of the progress interval of upload k
progressInterval(k) ==
    /\ page = "DataUpload" /\ ~navigated
    /\ uploads[k].interval
    /\ IF uploadProgress >= 90
       THEN /\ uploads' = [uploads EXCEPT ![k].interval = FALSE]
            /\ uploadProgress' = 90
       ELSE /\ uploadProgress' = uploadProgress + 10
            /\ UNCHANGED uploads
    /\ lastCall' = NoCall
    /\ UNCHANGED <<page, uploadedFile, isUploading, isAnalyzing, dataProfile,
                   actionPlan, error, activeTab, actionsInFlight, navigated,
                   isProcessing, progress, results, runs>>
    /\ UNCHANGED <<i18nVars, wizardVars, toolVars, widgetVars>>

ProgressTick == \E k \in 1..MaxUploads : progressInterval(k)

\* The same with the request sent again when the fetch rejects
uploadResponseRetries(k, outcome) ==
    /\ page = "DataUpload" /\ ~navigated
    /\ uploads[k].phase = "upload"
    /\ IF outcome = "throw"
       THEN /\ error' = "network"
            /\ UNCHANGED <<isUploading, isAnalyzing, uploads, uploadProgress>>
       ELSE /\ uploadProgress' = 100
            /\ IF outcome = "ok"
               THEN /\ isUploading' = FALSE /\ isAnalyzing' = TRUE
                    /\ uploads' = [uploads EXCEPT ![k] =
                                      [phase |-> "analysis", interval |-> FALSE]]
                    /\ UNCHANGED error
               ELSE /\ error' = IF outcome = "notok" THEN "Upload failed" ELSE "json"
                    /\ isUploading' = FALSE /\ isAnalyzing' = FALSE
                    /\ uploads' = [uploads EXCEPT ![k] =
                                      [phase |-> "done", interval |-> FALSE]]
    /\ lastCall' = [handler |-> "uploadAndAnalyze", outcome |-> outcome]
    /\ UNCHANGED <<page, uploadedFile, dataProfile, actionPlan, activeTab,
                   actionsInFlight, navigated, isProcessing, progress, results, runs>>
    /\ UNCHANGED <<i18nVars, wizardVars, toolVars, widgetVars>>

\* lines 157-171 and 185-191: the upload request of call k is answered
uploadResponse(k, outcome) ==
    /\ page = "DataUpload" /\ ~navigated
    /\ uploads[k].phase = "upload"
    /\ IF outcome = "throw"
       THEN \* the fetch rejects: lines 162-163 are skipped, the interval runs on
            /\ error' = "network"
            /\ isUploading' = FALSE /\ isAnalyzing' = FALSE
            /\ uploads' = [uploads EXCEPT ![k].phase = "done"]
            /\ UNCHANGED uploadProgress
       ELSE /\ uploadProgress' = 100
            /\ IF outcome = "ok"
               THEN /\ isUploading' = FALSE /\ isAnalyzing' = TRUE
                    /\ uploads' = [uploads EXCEPT ![k] =
                                      [phase |-> "analysis", interval |-> FALSE]]
                    /\ UNCHANGED error
               ELSE /\ error' = IF outcome = "notok" THEN "Upload failed" ELSE "json"
                    /\ isUploading' = FALSE /\ isAnalyzing' = FALSE
                    /\ uploads' = [uploads EXCEPT ![k] =
                                      [phase |-> "done", interval |-> FALSE]]
    /\ lastCall' = [handler |-> "uploadAndAnalyze", outcome |-> outcome]
    /\ UNCHANGED <<page, uploadedFile, dataProfile, actionPlan, activeTab,
                   actionsInFlight, navigated, isProcessing, progress, results, runs>>
    /\ UNCHANGED <<i18nVars, wizardVars, toolVars, widgetVars>>

UploadAnswered == \E k \in 1..MaxUploads, o \in Outcomes : uploadResponse(k, o)

\* The same with the profile and the plan dropped when the analysis fails
analysisResponseDropsProfile(k, outcome) ==
    /\ page = "DataUpload" /\ ~navigated
    /\ uploads[k].phase = "analysis"
    /\ IF outcome = "ok"
       THEN /\ dataProfile' = k /\ actionPlan' = k
            /\ activeTab' = "profile"
            /\ UNCHANGED error
       ELSE /\ error' = CASE outcome = "notok" -> "Analysis failed"
                          [] outcome = "throw" -> "network"
                          [] OTHER -> "json"
            /\ dataProfile' = 0 /\ actionPlan' = 0
            /\ UNCHANGED activeTab
    /\ isUploading' = FALSE /\ isAnalyzing' = FALSE
    /\ uploads' = [uploads EXCEPT ![k].phase = "done"]
    /\ lastCall' = [handler |-> "uploadAndAnalyze", outcome |-> outcome]
    /\ UNCHANGED <<page, uploadedFile, uploadProgress, actionsInFlight,
                   navigated, isProcessing, progress, results, runs>>
    /\ UNCHANGED <<i18nVars, wizardVars, toolVars, widgetVars>>

\* lines 174-191: the profile request of call k is answered
analysisResponse(k, outcome) ==
    /\ page = "DataUpload" /\ ~navigated
    /\ uploads[k].phase = "analysis"
    /\ IF outcome = "ok"
       THEN /\ dataProfile' = k /\ actionPlan' = k
            /\ activeTab' = "profile"
            /\ UNCHANGED error
       ELSE /\ error' = CASE outcome = "notok" -> "Analysis failed"
                          [] outcome = "throw" -> "network"
                          [] OTHER -> "json"
            /\ UNCHANGED <<dataProfile, actionPlan, activeTab>>
    /\ isUploading' = FALSE /\ isAnalyzing' = FALSE
    /\ uploads' = [uploads EXCEPT ![k].phase = "done"]
    /\ lastCall' = [handler |-> "uploadAndAnalyze", outcome |-> outcome]
    /\ UNCHANGED <<page, uploadedFile, uploadProgress, actionsInFlight,
                   navigated, isProcessing, progress, results, runs>>
    /\ UNCHANGED <<i18nVars, wizardVars, toolVars, widgetVars>>

AnalysisAnswered == \E k \in 1..MaxUploads, o \in Outcomes : analysisResponse(k, o)

\* line 518: a tab trigger is clicked; lines 521, 524 disable two of them
SelectTab ==
    /\ page = "DataUpload" /\ ~navigated
    /\ \E tab \in {"upload", "profile", "chat"} :
          /\ tab # "upload" => dataProfile # 0
          /\ tab # activeTab
          /\ activeTab' = tab
    /\ lastCall' = NoCall
    /\ UNCHANGED <<page, uploadedFile, isUploading, isAnalyzing, uploadProgress,
                   dataProfile, actionPlan, error, uploads, actionsInFlight,
                   navigated, isProcessing, progress, results, runs>>
    /\ UNCHANGED <<i18nVars, wizardVars, toolVars, widgetVars>>

\* lines 194-205, 210-213: a recommended action's button (line 431, rendered
\* in the profile tab when there is a profile and an action plan) is clicked
handleActionClick(action) ==
    /\ page = "DataUpload" /\ ~navigated
    /\ activeTab = "profile" /\ dataProfile # 0 /\ actionPlan # 0
    /\ IF action = "create_embeddings"
       THEN /\ actionsInFlight < MaxActions
            /\ actionsInFlight' = actionsInFlight + 1
            /\ UNCHANGED navigated
       ELSE /\ navigated' = TRUE
            /\ UNCHANGED actionsInFlight
    /\ lastCall' = NoCall
    /\ UNCHANGED <<page, uploadedFile, isUploading, isAnalyzing, uploadProgress,
                   dataProfile, actionPlan, error, activeTab, uploads,
                   isProcessing, progress, results, runs>>
    /\ UNCHANGED <<i18nVars, wizardVars, toolVars, widgetVars>>

ActionClick == \E action \in {"quick_train", "create_embeddings", "preprocess"} :
                  handleActionClick(action)

\* lines 201-209, 214-216: the create_embeddings request is answered; its body
\* is not read
actionResponse(outcome) ==
    /\ page = "DataUpload" /\ ~navigated
    /\ actionsInFlight > 0
    /\ actionsInFlight' = actionsInFlight - 1
    /\ CASE outcome = "ok" -> activeTab' = "chat" /\ UNCHANGED error
         [] outcome = "notok" -> UNCHANGED <<activeTab, error>>
         [] OTHER -> error' = "Action failed" /\ UNCHANGED activeTab
    /\ lastCall' = [handler |-> "handleActionClick", outcome |-> outcome]
    /\ UNCHANGED <<page, uploadedFile, isUploading, isAnalyzing, uploadProgress,
                   dataProfile, actionPlan, uploads, navigated,
                   isProcessing, progress, results, runs>>
    /\ UNCHANGED <<i18nVars, wizardVars, toolVars, widgetVars>>

ActionAnswered == \E o \in {"ok", "notok", "throw"} : actionResponse(o)

\* line 292: the inline alert is part of the upload tab's content
AlertDisplayed == error # "" /\ activeTab = "upload"

-----------------------------------------------------------------------------
(* Adversarial and Quantum: src/src/pages/Adversarial.tsx, Quantum.tsx     *)

StepsAdversarial == 15
StepsQuantum == 20

steps == IF page = "Quantum" THEN StepsQuantum ELSE StepsAdversarial

\* Adversarial.tsx line 217, Quantum.tsx line 200: disabled={isProcessing}
LaunchEnabled == ~isProcessing

FreeRun == CHOOSE r \in 1..MaxRuns :
              /\ runs[r].phase = "idle"
              /\ \A j \in 1..MaxRuns : runs[j].phase = "idle" => r <= j

\* Adversarial.tsx lines 51-58 (Quantum.tsx 47-54): the Launch button is
\* clicked; the handler runs up to the first await of its loop
Launch ==
    /\ page \in {"Adversarial", "Quantum"}
    /\ LaunchEnabled
    /\ \E r \in 1..MaxRuns : runs[r].phase = "idle"
    /\ isProcessing' = TRUE
    /\ progress' = 0
    /\ runs' = [runs EXCEPT ![FreeRun] = [phase |-> "loop", i |-> 0]]
    /\ lastCall' = NoCall
    /\ UNCHANGED <<page, uploadedFile, isUploading, isAnalyzing, uploadProgress,
                   dataProfile, actionPlan, error, activeTab, uploads,
                   actionsInFlight, navigated, results>>
    /\ UNCHANGED <<i18nVars, wizardVars, toolVars, widgetVars>>

\* Adversarial.tsx lines 57-74 (Quantum.tsx 53-70): the timer the loop awaits
\* fires; progress is (i / steps) * 100, kept here as a whole percentage; after
\* the last round the handler issues the request
loopTimer(r) ==
    /\ page \in {"Adversarial", "Quantum"}
    /\ runs[r].phase = "loop"
    /\ progress' = (runs[r].i * 100) \div steps
    /\ runs' = [runs EXCEPT ![r] =
                   IF runs[r].i = steps
                   THEN [phase |-> "fetch", i |-> steps]
                   ELSE [phase |-> "loop", i |-> runs[r].i + 1]]
    /\ lastCall' = NoCall
    /\ UNCHANGED <<page, uploadedFile, isUploading, isAnalyzing, uploadProgress,
                   dataProfile, actionPlan, error, activeTab, uploads,
                   actionsInFlight, navigated, isProcessing, results>>
    /\ UNCHANGED <<i18nVars, wizardVars, toolVars, widgetVars>>

LoopTimerFires == \E r \in 1..MaxRuns : loopTimer(r)

\* Adversarial.tsx lines 76-113 (Quantum.tsx 72-107): the request is answered
fetchResponse(r, outcome) ==
    /\ page \in {"Adversarial", "Quantum"}
    /\ runs[r].phase = "fetch"
    /\ results' = IF outcome = "ok" THEN "data" ELSE "mock"
    /\ isProcessing' = FALSE
    /\ runs' = [runs EXCEPT ![r] = [phase |-> "idle", i |-> 0]]
    /\ lastCall' = [handler |-> "Launch", outcome |-> outcome]
    /\ UNCHANGED <<page, uploadedFile, isUploading, isAnalyzing, uploadProgress,
                   dataProfile, actionPlan, error, activeTab, uploads,
                   actionsInFlight, navigated, progress>>
    /\ UNCHANGED <<i18nVars, wizardVars, toolVars, widgetVars>>

FetchAnswered == \E r \in 1..MaxRuns, o \in Outcomes : fetchResponse(r, o)

InitPages ==
    /\ page \in {"DataUpload", "Adversarial", "Quantum"}
    /\ InitialPageState
    /\ InitialWizardState
    /\ NoI18n
    /\ NoTool
    /\ NoWidget

NextPages ==
    \/ DropFile \/ ProgressTick \/ UploadAnswered \/ AnalysisAnswered
    \/ SelectTab \/ ActionClick \/ ActionAnswered
    \/ Launch \/ LoopTimerFires \/ FetchAnswered

SpecPages == InitPages /\ [][NextPages]_vars

-----------------------------------------------------------------------------
(* Onboarding: src/unnamed/part_004                                        *)

\* lines 40-77
STEPS == <<"welcome", "upload", "configure", "train", "evaluate", "deploy">>

DEMO_DATASETS == {"Exoplanet Classification", "Stellar Properties",
                  "Galaxy Classification"}

\* line 309: STEPS[currentStep] (the list is indexed from 0) is an element of
\* the list; when it is not, the render throws and the wizard is gone
Mounted == page = "Onboarding" /\ currentStep \in 0..(Len(STEPS) - 1)

stepId == STEPS[currentStep + 1]

\* Appends to completedSteps that pending timers will still make; the guards
\* of the actions keep room for them below MaxCompleted.
PendingAppends == Len(trainingIntervals) + Len(demoTimers) + Len(wizardUploads)

Room == Len(completedSteps) + PendingAppends < MaxCompleted

nextStepFromSkipsRecord(step) ==
    IF step < Len(STEPS) - 1
    THEN currentStep' = currentStep + 1 /\ UNCHANGED completedSteps
    ELSE UNCHANGED <<completedSteps, currentStep>>

\* lines 349-354, for a nextStep that closed over currentStep = step
nextStepFrom(step) ==
    IF step < Len(STEPS) - 1
    THEN /\ completedSteps' = Append(completedSteps, step)
         /\ currentStep' = currentStep + 1
    ELSE UNCHANGED <<completedSteps, currentStep>>

\* lines 1275-1283: the Next button's disabled attribute
NextDisabled ==
    \/ currentStep = Len(STEPS) - 1
    \/ (stepId = "upload" /\ ~uploadedData /\ selectedDataset = "")
    \/ (stepId = "train" /\ trainingProgress < 100)

\* lines 349-354: a click on Next (line 1276), or on View Results (line 1075),
\* which the train step shows once trainingProgress is 100
nextStep ==
    /\ Mounted /\ Room
    /\ ~NextDisabled
    /\ nextStepFrom(currentStep)
    /\ UNCHANGED <<isTraining, trainingProgress, selectedDataset, uploadedData,
                   trainingIntervals, demoTimers, wizardUploads>>
    /\ UNCHANGED <<i18nVars, pageVars, toolVars, widgetVars>>

\* lines 356-360: a click on Previous (line 1268, disabled on the first step)
prevStep ==
    /\ Mounted
    /\ currentStep # 0
    /\ IF currentStep > 0
       THEN currentStep' = currentStep - 1
       ELSE UNCHANGED currentStep
    /\ UNCHANGED <<completedSteps, isTraining, trainingProgress, selectedDataset,
                   uploadedData, trainingIntervals, demoTimers, wizardUploads>>
    /\ UNCHANGED <<i18nVars, pageVars, toolVars, widgetVars>>

StartAlwaysShown == stepId = "train"

\* lines 1055-1056: the Start Training button is rendered in the train step
\* while no training runs and none has run
StartShown == stepId = "train" /\ ~isTraining /\ trainingProgress = 0

\* lines 362-378: a click on Start Training; the handler runs to its end
startTraining ==
    /\ Mounted /\ Room
    /\ StartShown
    /\ Len(trainingIntervals) < MaxIntervals
    /\ isTraining' = TRUE
    /\ trainingProgress' = 0
    /\ trainingIntervals' = Append(trainingIntervals, currentStep)
    /\ UNCHANGED <<currentStep, completedSteps, selectedDataset, uploadedData,
                   demoTimers, wizardUploads>>
    /\ UNCHANGED <<i18nVars, pageVars, toolVars, widgetVars>>

RemoveAt(seq, j) == [n \in 1..(Len(seq) - 1) |-> IF n < j THEN seq[n] ELSE seq[n + 1]]

TickAddsThree(prev) == prev + 3

\* line 375
TickAdds(prev) == prev + 2

\* lines 367-377: one callback of interval j of startTraining
trainingTick(j) ==
    /\ Mounted
    /\ j \in 1..Len(trainingIntervals)
    /\ IF trainingProgress >= 100
       THEN /\ trainingIntervals' = RemoveAt(trainingIntervals, j)
            /\ isTraining' = FALSE
            /\ completedSteps' = Append(completedSteps, trainingIntervals[j])
            /\ trainingProgress' = 100
       ELSE /\ trainingProgress' = TickAdds(trainingProgress)
            /\ UNCHANGED <<trainingIntervals, isTraining, completedSteps>>
    /\ UNCHANGED <<currentStep, selectedDataset, uploadedData, demoTimers, wizardUploads>>
    /\ UNCHANGED <<i18nVars, pageVars, toolVars, widgetVars>>

TrainingTick == \E j \in 1..MaxIntervals : trainingTick(j)

\* lines 380-387 up to the timeout: a click on a demo dataset's card (line
\* 907), which the upload step renders
selectDemoDataset(datasetName) ==
    /\ Mounted /\ Room
    /\ stepId = "upload"
    /\ Len(demoTimers) < MaxTimers
    /\ selectedDataset' = datasetName
    /\ demoTimers' = Append(demoTimers, currentStep)
    /\ UNCHANGED <<currentStep, completedSteps, isTraining, trainingProgress,
                   uploadedData, trainingIntervals, wizardUploads>>
    /\ UNCHANGED <<i18nVars, pageVars, toolVars, widgetVars>>

SelectDemo == \E datasetName \in DEMO_DATASETS : selectDemoDataset(datasetName)

\* lines 383-386: the oldest pending timeout of selectDemoDataset fires
demoTimerFires ==
    /\ Mounted
    /\ demoTimers # <<>>
    /\ uploadedData' = TRUE
    /\ nextStepFrom(Head(demoTimers))
    /\ demoTimers' = Tail(demoTimers)
    /\ UNCHANGED <<isTraining, trainingProgress, selectedDataset, trainingIntervals,
                   wizardUploads>>
    /\ UNCHANGED <<i18nVars, pageVars, toolVars, widgetVars>>

\* part_001 lines 54-58 and 128-158 inside the wizard (line 969): a file is
\* handed to the DataUploader of the upload step, whose processFile runs up
\* to its await; the onDataUploaded it will call is the one of this render
wizardProcessFile ==
    /\ Mounted /\ Room
    /\ stepId = "upload"
    /\ Len(wizardUploads) < MaxFiles
    /\ wizardUploads' = Append(wizardUploads, currentStep)
    /\ UNCHANGED <<currentStep, completedSteps, isTraining, trainingProgress,
                   selectedDataset, uploadedData, trainingIntervals, demoTimers>>
    /\ UNCHANGED <<i18nVars, pageVars, toolVars, widgetVars>>

\* lines 970-973: processFile resumes after its 2 s (part_001 lines 73, 120)
\* and calls onDataUploaded, also when the DataUploader is unmounted by then
onDataUploaded ==
    /\ Mounted
    /\ wizardUploads # <<>>
    /\ uploadedData' = TRUE
    /\ nextStepFrom(Head(wizardUploads))
    /\ wizardUploads' = Tail(wizardUploads)
    /\ UNCHANGED <<isTraining, trainingProgress, selectedDataset, trainingIntervals,
                   demoTimers>>
    /\ UNCHANGED <<i18nVars, pageVars, toolVars, widgetVars>>

InitOnboarding ==
    /\ page = "Onboarding"
    /\ InitialPageState
    /\ InitialWizardState
    /\ NoI18n
    /\ NoTool
    /\ NoWidget

NextOnboarding ==
    \/ nextStep \/ prevStep \/ startTraining \/ TrainingTick
    \/ SelectDemo \/ demoTimerFires
    \/ wizardProcessFile \/ onDataUploaded

SpecOnboarding == InitOnboarding /\ [][NextOnboarding]_vars

\* Every page the router can mount
InitUI == InitPages \/ InitOnboarding

NextUI == NextPages \/ NextOnboarding

SpecUI == InitUI /\ [][NextUI]_vars

-----------------------------------------------------------------------------
(* Locale files: JSON values                                               *)

\* A string is the sequence of its words; an object is a function from its
\* keys to values.  A key is the sequence of the pieces that its dots
\* separate: <<"a">> is the key "a" and <<"a", "b">> is the key "a.b", so
\* joining with '.' is concatenation and split('.') gives the pieces.
Str(s) == [t |-> "s", s |-> s]

Obj(f) == [t |-> "o", o |-> f]

Undefined == [t |-> "undefined"]

EmptyObject == Obj([k \in {} |-> Undefined])

\* generate_i18n_report.js line 17: typeof value === 'object' && value !== null
\* && !Array.isArray(value)
IsObject(v) == v.t = "o"

\* The values JavaScript's ! turns into true
Falsy(v) ==
    v.t = "undefined" \/ (v.t = "s" /\ v.s = <<>>) \/ (v.t = "b" /\ ~v.b)

KeyNames ==
    <<"k01", "k02", "k03", "k04", "k05", "k06", "k07", "k08", "k09", "k10",
      "k11", "k12", "k13", "k14", "k15", "k16", "k17", "k18", "k19", "k20",
      "k21", "k22">>

\* The keys a locale file of the model can hold, in the order the files
\* list them (Object.entries follows it)
KeyList ==
    <<  <<"a">>, <<"a", "b">>, <<"b">>,
        <<"_value">>, <<"_autoTranslated">>, <<"_originalValue">>,
        <<"_needsReview">> >>
    \o [i \in 1..(MaxFlatKeys + 1) |-> <<KeyNames[i]>>]

RECURSIVE deepKeysFrom(_, _, _)
deepKeysFrom(f, prefix, n) ==
    IF n > Len(KeyList) THEN <<>>
    ELSE LET key == KeyList[n]
             fullKey == IF prefix # <<>> THEN prefix \o key ELSE key
         IN  (IF key \notin DOMAIN f THEN <<>>
              ELSE IF IsObject(f[key]) THEN deepKeysFrom(f[key].o, fullKey, 1)
              ELSE <<fullKey>>)
             \o deepKeysFrom(f, prefix, n + 1)

deepKeys(obj) == deepKeysFrom(obj.o, <<>>, 1)

\* current?.[key] for one piece of the split path
Lookup(current, piece) ==
    IF IsObject(current) /\ <<piece>> \in DOMAIN current.o
    THEN current.o[<<piece>>]
    ELSE Undefined

RECURSIVE Reduce(_, _)
Reduce(current, pieces) ==
    IF pieces = <<>> THEN current
    ELSE Reduce(Lookup(current, Head(pieces)), Tail(pieces))

getValueByPathEmptyIsPresent(obj, path) ==
    LET v == Reduce(obj, path)
    IN  IF v = Str(<<>>) THEN Str(<<"present">>) ELSE v

getValueByPath(obj, path) == Reduce(obj, path)

\* JSON has no NaN and no Infinity: JSON.stringify writes null for them
JsonNull == -1

\* Math.round(a / b) for a >= 0 and b > 0
RoundDiv(a, b) == (2 * a + b) \div (2 * b)

\* Math.round(keys / enKeys * 100 * 100) / 100, in hundredths of a percent
CoveragePercentage(keys, enKeys) ==
    IF enKeys = 0 THEN JsonNull ELSE RoundDiv(keys * 10000, enKeys)

LanguageReport(enKeys, data) ==
    LET keys == deepKeys(data)
        missing == SelectSeq(enKeys, LAMBDA key : Falsy(getValueByPath(data, key)))
    IN  [keys_count |-> Len(keys),
         keys_translated |-> Len(keys) - Len(missing),
         keys_missing |-> Len(missing),
         coverage_percentage |-> CoveragePercentage(Len(keys), Len(enKeys)),
         missing_keys |-> missing]

OrEmpty(data) == IF data = Absent THEN EmptyObject ELSE data

\* generate_i18n_report.js main, for an en.json that exists
Report(en, ar, es) ==
    LET enKeys == deepKeys(en)
    IN  [total_keys |-> Len(enKeys),
         languages |-> [ar |-> LanguageReport(enKeys, OrEmpty(ar)),
                        es |-> LanguageReport(enKeys, OrEmpty(es))]]

-----------------------------------------------------------------------------
(* The locale files the scripts are run on                                 *)

TopKeys == {<<"a">>, <<"a", "b">>}

Leaves(texts) == {Str(x) : x \in texts}

Nodes(texts) ==
    Leaves(texts) \cup {EmptyObject}
    \cup {Obj(<<"b">> :> leaf) : leaf \in Leaves(texts)}

\* Nested files: any of the keys "a" and "a.b", holding a string, {} or {b: string}
TreeFiles(texts) ==
    UNION {{Obj(f) : f \in [S -> Nodes(texts)]} : S \in SUBSET TopKeys}

\* Flat files: the keys KeyNames[lo] .. KeyNames[hi], every one translated
FlatFile(lo, hi) == Obj([k \in {<<KeyNames[i]>> : i \in lo..hi} |-> Str(<<"x">>)])

EnTexts == {<<"Home">>}

ArTexts == {<<>>, <<"x">>}

EsFiles ==
    {Absent, EmptyObject, Obj(<<"a">> :> Str(<<>>)), Obj(<<"a">> :> Str(<<"x">>)),
     Obj(<<"a">> :> Obj(<<"b">> :> Str(<<"x">>)))}

MissingFiles == {"absent", "invalid", "empty", "keys"}

-----------------------------------------------------------------------------
(* i18n_audit.sh and i18n_audit.js                                         *)

Exit(code) == toolPc' = "done" /\ exitCode' = code

Goto(step) == toolPc' = step /\ UNCHANGED exitCode

\* i18n_audit.sh line 25: the scanner writes ar.missing.json (savePath of
\* i18next-scanner.config.js); set -e ends the script if it fails
ScanStrings ==
    /\ script = "sh" /\ toolPc = "scan"
    /\ \E ok \in BOOLEAN :
          IF ok
          THEN Goto("files") /\ missingFile' \in MissingFiles
          ELSE Exit(1) /\ UNCHANGED missingFile
    /\ UNCHANGED <<script, enData, arData, esData, report, arBefore>>
    /\ UNCHANGED <<i18nVars, pageVars, wizardVars, widgetVars>>

\* Step 2 of both scripts
CheckFiles ==
    /\ script \in {"sh", "js"} /\ toolPc = "files"
    /\ IF enData = Absent \/ arData = Absent THEN Exit(1) ELSE Goto("report")
    /\ UNCHANGED <<script, enData, arData, esData, missingFile, report, arBefore>>
    /\ UNCHANGED <<i18nVars, pageVars, wizardVars, widgetVars>>

\* Step 3 of both scripts
GenerateReport ==
    /\ script \in {"sh", "js"} /\ toolPc = "report"
    /\ report' = Report(enData, arData, esData)
    /\ Goto("missing")
    /\ UNCHANGED <<script, enData, arData, esData, missingFile, arBefore>>
    /\ UNCHANGED <<i18nVars, pageVars, wizardVars, widgetVars>>

\* Object.keys(missing).length of Step 4.  The shell script catches the
\* parse error and prints 0; in the Node script the error reaches the catch
\* of main.
MissingCountSh(file) == IF file = "keys" THEN 1 ELSE 0

MissingFailsSh(file) == file # "absent" /\ MissingCountSh(file) > 0

MissingFailsJs(file) == file = "invalid" \/ file = "keys"

CheckMissing ==
    /\ script \in {"sh", "js"} /\ toolPc = "missing"
    /\ IF script = "sh"
       THEN IF MissingFailsSh(missingFile) THEN Exit(1) ELSE Goto("hardcoded")
       ELSE IF MissingFailsJs(missingFile) THEN Exit(1) ELSE Goto("hardcoded")
    /\ UNCHANGED <<script, enData, arData, esData, missingFile, report, arBefore>>
    /\ UNCHANGED <<i18nVars, pageVars, wizardVars, widgetVars>>

\* Step 5 of both scripts only prints a warning
CheckHardcoded ==
    /\ script \in {"sh", "js"} /\ toolPc = "hardcoded"
    /\ Goto("coverage")
    /\ UNCHANGED <<script, enData, arData, esData, missingFile, report, arBefore>>
    /\ UNCHANGED <<i18nVars, pageVars, wizardVars, widgetVars>>

\* Math.round of something that is not a number
NaN == -2

\* i18n_audit.sh line 82: Math.round(report.coverage_percentage)
CoverageSh(r) ==
    IF "coverage_percentage" \in DOMAIN r
    THEN RoundDiv(r.coverage_percentage, 100)
    ELSE NaN

\* i18n_audit.sh line 85: [ "$COVERAGE" -lt 95 ] is an error, hence not true,
\* when $COVERAGE is not an integer
TestLessThan(coverage, limit) == coverage # NaN /\ coverage < limit

\* i18n_audit.js line 689: Math.round(report.languages?.ar?.coverage_percentage || 0)
CoverageJs(r) ==
    LET c == r.languages.ar.coverage_percentage
    IN  IF c = JsonNull \/ c = 0 THEN 0 ELSE RoundDiv(c, 100)

RequiredCoverage == 95

CheckCoverage ==
    /\ script \in {"sh", "js"} /\ toolPc = "coverage"
    /\ IF script = "sh"
       THEN IF TestLessThan(CoverageSh(report), RequiredCoverage)
            THEN Exit(1) ELSE Exit(0)
       ELSE IF CoverageJs(report) < RequiredCoverage THEN Exit(1) ELSE Exit(0)
    /\ UNCHANGED <<script, enData, arData, esData, missingFile, report, arBefore>>
    /\ UNCHANGED <<i18nVars, pageVars, wizardVars, widgetVars>>

InitAudit ==
    /\ script \in {"sh", "js"}
    /\ \/ /\ enData \in TreeFiles(EnTexts) \cup {Absent}
          /\ arData \in TreeFiles(ArTexts) \cup {Absent}
          /\ esData \in EsFiles
       \/ /\ \E n \in 1..MaxFlatKeys : enData = FlatFile(1, n)
          /\ \E lo \in 1..2, hi \in 0..(MaxFlatKeys + 1) : arData = FlatFile(lo, hi)
          /\ esData = Absent
    /\ missingFile \in MissingFiles
    /\ report = Absent
    /\ toolPc = IF script = "sh" THEN "scan" ELSE "files"
    /\ exitCode = 0
    /\ arBefore = arData
    /\ NoI18n
    /\ NoPage
    /\ NoWidget

NextAudit ==
    \/ ScanStrings \/ CheckFiles \/ GenerateReport
    \/ CheckMissing \/ CheckHardcoded \/ CheckCoverage

SpecAudit == InitAudit /\ [][NextAudit]_vars

-----------------------------------------------------------------------------
(* auto_translate.js: src/src/lib/i18n-utils.ts lines 1227-1461            *)

Bool(b) == [t |-> "b", b |-> b]

\* Some entries of the table; "ar:..." stands for the Arabic text
TRANSLATION_MAP ==
    (<<"Home">> :> <<"ar:Home">>) @@ (<<"Model">> :> <<"ar:Model">>)
    @@ (<<"Start", "Training">> :> <<"ar:Start", "ar:Training">>)
    @@ (<<"TabKANet">> :> <<"TabKANet">>) @@ (<<"QSVC">> :> <<"QSVC">>)

InMap(text) == text \in DOMAIN TRANSLATION_MAP

modelNames == {"TabKANet", "QSVC", "CNN", "RNN", "LSTM", "GAN", "VAE"}

techTerms == {".csv", ".json", ".pt", ".onnx", "CLI", "API", "HTTP", "GPU", "CPU"}

isModelNameWholeText(text) == text \in {<<name>> : name \in modelNames}

\* text.includes(name), for a text cut into pieces at the names it contains
isModelName(text) == \E i \in DOMAIN text : text[i] \in modelNames

isTechnicalTerm(text) == \E i \in DOMAIN text : text[i] \in techTerms

translateText(text, targetLang) ==
    IF InMap(text) THEN TRANSLATION_MAP[text]
    ELSE IF targetLang = "ar"
         THEN IF isModelName(text) \/ isTechnicalTerm(text)
              THEN text
              ELSE <<"[AR: ">> \o text \o <<"]">>
         ELSE text

AutoTranslated(translated, value) ==
    Obj((<<"_value">> :> Str(translated)) @@ (<<"_autoTranslated">> :> Bool(TRUE))
        @@ (<<"_originalValue">> :> Str(value)) @@ (<<"_needsReview">> :> Bool(TRUE)))

RECURSIVE deepTranslate(_, _)
deepTranslate(f, targetLang) ==
    [key \in DOMAIN f |->
        IF IsObject(f[key]) THEN Obj(deepTranslate(f[key].o, targetLang))
        ELSE IF f[key].t = "s"
             THEN LET value == f[key].s
                      translated == translateText(value, targetLang)
                  IN  IF translated # value /\ ~InMap(value)
                      THEN AutoTranslated(translated, value)
                      ELSE Str(translated)
             ELSE f[key]]

\* value._autoTranslated as a condition
Truthy(v) == v.t = "o" \/ (v.t = "s" /\ v.s # <<>>) \/ (v.t = "b" /\ v.b)

RECURSIVE flattenTranslatedObject(_)
flattenTranslatedObject(f) ==
    [key \in DOMAIN f |->
        IF IsObject(f[key])
        THEN IF Truthy(Lookup(f[key], "_autoTranslated"))
             THEN Lookup(f[key], "_value")
             ELSE Obj(flattenTranslatedObject(f[key].o))
        ELSE f[key]]

RECURSIVE mergeTranslations(_, _)
mergeTranslations(existing, translated) ==
    [key \in DOMAIN translated \cup DOMAIN existing |->
        IF key \notin DOMAIN existing THEN translated[key]
        ELSE IF /\ IsObject(existing[key])
                /\ key \in DOMAIN translated
                /\ Truthy(translated[key]) /\ IsObject(translated[key])
             THEN Obj(mergeTranslations(existing[key].o, translated[key].o))
             ELSE existing[key]]

\* The ar.json that main writes
finalData(en, ar) ==
    Obj(flattenTranslatedObject(mergeTranslations(ar.o, deepTranslate(en.o, "ar"))))

translateMain ==
    /\ script = "translate" /\ toolPc = "translate"
    /\ IF enData = Absent
       THEN Exit(1) /\ UNCHANGED arData
       ELSE Exit(0) /\ arData' = finalData(enData, OrEmpty(arData))
    /\ UNCHANGED <<script, enData, esData, missingFile, report, arBefore>>
    /\ UNCHANGED <<i18nVars, pageVars, wizardVars, widgetVars>>

TranslateEnTexts ==
    {<<"Home">>, <<"Hello">>, <<"TabKANet", " model">>, <<"TabKANet">>,
     <<"Train a ", "CNN", "s">>, <<>>}

TranslateArTexts == {<<>>, <<"x">>, <<"[AR: ", "Hello", "]">>}

InitTranslate ==
    /\ script = "translate"
    /\ enData \in TreeFiles(TranslateEnTexts) \cup {Absent}
    /\ arData \in TreeFiles(TranslateArTexts) \cup {Absent}
    /\ esData = Absent
    /\ missingFile = "absent"
    /\ report = Absent
    /\ toolPc = "translate"
    /\ exitCode = 0
    /\ arBefore = arData
    /\ NoI18n
    /\ NoPage
    /\ NoWidget

NextTranslate == translateMain

SpecTranslate == InitTranslate /\ [][NextTranslate]_vars

-----------------------------------------------------------------------------
(* DataUploader: src/unnamed/part_001                                      *)

\* The variables of pageVars that DataUploader does not have
notUploaderVars == <<uploadedFile, isUploading, isAnalyzing, dataProfile,
                     actionPlan, activeTab, uploads, actionsInFlight, navigated,
                     progress, results, runs, lastCall>>

\* lines 54-69: the start of processFile, up to the await
processFile(file) ==
    /\ isProcessing' = TRUE
    /\ error' = ""
    /\ uploadProgress' = 0
    /\ processCalls' = Append(processCalls, [file |-> file, interval |-> TRUE])

\* lines 128-151: the drop zone is rendered while there is no preview
handleDrop(file) ==
    /\ page = "DataUploader" /\ ~dataPreview
    /\ Len(processCalls) < MaxFiles
    /\ IF ~file.extAccepted
       THEN error' = "Unsupported file format"
            /\ UNCHANGED <<isProcessing, uploadProgress, processCalls>>
       ELSE IF ~file.sizeAllowed
       THEN error' = "File too large"
            /\ UNCHANGED <<isProcessing, uploadProgress, processCalls>>
       ELSE processFile(file)
    /\ UNCHANGED <<page, notUploaderVars, dataPreview, onDataUploadedCalls>>
    /\ UNCHANGED <<i18nVars, wizardVars, toolVars, chatVars, demoVars>>

\* lines 153-158: the input is disabled while isProcessing; its accept
\* attribute is a filter the user can switch off in the file dialog
handleFileSelect(file) ==
    /\ page = "DataUploader" /\ ~dataPreview /\ ~isProcessing
    /\ Len(processCalls) < MaxFiles
    /\ processFile(file)
    /\ UNCHANGED <<page, notUploaderVars, dataPreview, onDataUploadedCalls>>
    /\ UNCHANGED <<i18nVars, wizardVars, toolVars, chatVars, demoVars>>

Files == [via : {"drop"}, extAccepted : BOOLEAN, sizeAllowed : BOOLEAN]

PickedFiles == [via : {"picker"}, extAccepted : BOOLEAN, sizeAllowed : BOOLEAN]

Drop == \E file \in Files : handleDrop(file)

FileSelect == \E file \in PickedFiles : handleFileSelect(file)

\* lines 61-69: one tick of the progress interval of call k
uploaderInterval(k) ==
    /\ page = "DataUploader"
    /\ k \in 1..Len(processCalls) /\ processCalls[k].interval
    /\ IF uploadProgress >= 90
       THEN /\ uploadProgress' = 90
            /\ processCalls' = [processCalls EXCEPT ![k].interval = FALSE]
       ELSE /\ uploadProgress' = uploadProgress + 10
            /\ UNCHANGED processCalls
    /\ UNCHANGED <<page, notUploaderVars, isProcessing, error, dataPreview,
                   onDataUploadedCalls>>
    /\ UNCHANGED <<i18nVars, wizardVars, toolVars, chatVars, demoVars>>

UploaderTick == \E k \in 1..MaxFiles : uploaderInterval(k)

\* lines 72-125: the 2 s timer of call k fires and processFile goes on
processFileResumes(k) ==
    /\ page = "DataUploader"
    /\ k \in 1..Len(processCalls)
    /\ uploadProgress' = 100
    /\ dataPreview' = TRUE
    /\ onDataUploadedCalls' = Append(onDataUploadedCalls, processCalls[k].file)
    /\ isProcessing' = FALSE
    /\ processCalls' = RemoveAt(processCalls, k)
    /\ UNCHANGED <<page, notUploaderVars, error>>
    /\ UNCHANGED <<i18nVars, wizardVars, toolVars, chatVars, demoVars>>

ProcessFileResumes == \E k \in 1..MaxFiles : processFileResumes(k)

InitUploader ==
    /\ page = "DataUploader"
    /\ InitialPageState
    /\ InitialWizardState
    /\ NoUploader
    /\ NoChat
    /\ InitialDemoState
    /\ NoI18n
    /\ NoTool

NextUploader == Drop \/ FileSelect \/ UploaderTick \/ ProcessFileResumes

SpecUploader == InitUploader /\ [][NextUploader]_vars

-----------------------------------------------------------------------------
(* ChatWidget: src/src/components/ChatWidget.tsx                           *)

\* The variables of pageVars that ChatWidget does not have
notChatVars == <<uploadedFile, isUploading, isAnalyzing, uploadProgress,
                 dataProfile, actionPlan, activeTab, uploads, actionsInFlight,
                 navigated, isProcessing, progress, results, runs, lastCall>>

\* line 126, as the render that created the handler saw it
isRTL == language = "ar"

trim(value) == IF value = " " THEN "" ELSE value

ChatMessage(role, content, lng) == [role |-> role, content |-> content, language |-> lng]

errorContentEnglish(rtl) == "Sorry, an error occurred"

\* lines 244-246; "ar:" stands for the Arabic text
errorContent(rtl) ==
    IF rtl THEN "ar:Sorry, an error occurred" ELSE "Sorry, an error occurred"

\* lines 183-187, when the response has no text
noResponseContent(rtl) ==
    IF rtl THEN "ar:Could not get a response" ELSE "Could not get a response"

\* lines 235-254: the catch and finally blocks of sendMessage, for a call that
\* closed over rtl and lng, appending to msgs
catchBlock(errorMessage, rtl, lng, msgs) ==
    /\ error' = errorMessage
    /\ messages' = Append(msgs, ChatMessage("assistant", errorContent(rtl), lng))
    /\ isLoading' = FALSE
    /\ chatFailures' = chatFailures + 1

\* line 550: the input is disabled while isLoading
setInputValue(value) ==
    /\ page = "ChatWidget" /\ ~isLoading
    /\ inputValue # value
    /\ inputValue' = value
    /\ UNCHANGED <<messages, isLoading, apiKey, chatRequests, sends, generateCalls,
                   chatFailures, sentIn>>
    /\ UNCHANGED <<page, notChatVars, error, uploaderVars, demoVars>>
    /\ UNCHANGED <<i18nVars, wizardVars, toolVars>>

TypeInput == \E value \in {"", " ", "q"} : setInputValue(value)

\* lines 141-181: sendMessage up to its await, or through its catch when the
\* API key is missing
sendMessage ==
    /\ page = "ChatWidget"
    /\ ~(trim(inputValue) = "" \/ isLoading)
    /\ sends < MaxSends
    /\ sends' = sends + 1
    /\ sentIn' = language
    /\ inputValue' = ""
    /\ LET withUser == Append(messages, ChatMessage("user", "question", language))
       IN  IF ~apiKey
           THEN /\ catchBlock("Missing VITE_GEMINI_API_KEY", isRTL, language, withUser)
                /\ UNCHANGED <<chatRequests, generateCalls>>
           ELSE /\ messages' = withUser
                /\ isLoading' = TRUE
                /\ error' = ""
                /\ chatRequests' = Append(chatRequests,
                                          [isRTL |-> isRTL, currentLanguage |-> language])
                /\ generateCalls' = generateCalls + 1
                /\ UNCHANGED chatFailures
    /\ UNCHANGED apiKey
    /\ UNCHANGED <<page, notChatVars, uploaderVars, demoVars>>
    /\ UNCHANGED <<i18nVars, wizardVars, toolVars>>

\* What model.generateContent ends in: a response with text, a response
\* without text, a rejection with an Error, a rejection with something else
GenerateOutcomes == {"text", "notext", "error", "reject"}

\* lines 181-254: sendMessage after its await
generateContentSettles(outcome) ==
    /\ page = "ChatWidget"
    /\ chatRequests # <<>>
    /\ LET call == Head(chatRequests)
       IN  CASE outcome = "text" ->
                  /\ messages' = Append(messages,
                        ChatMessage("assistant", "answer", call.currentLanguage))
                  /\ isLoading' = FALSE
                  /\ UNCHANGED <<error, chatFailures>>
             [] outcome = "notext" ->
                  /\ messages' = Append(messages,
                        ChatMessage("assistant", noResponseContent(call.isRTL),
                                    call.currentLanguage))
                  /\ isLoading' = FALSE
                  /\ UNCHANGED <<error, chatFailures>>
             [] outcome = "error" ->
                  catchBlock("request failed", call.isRTL, call.currentLanguage, messages)
             [] OTHER ->
                  catchBlock("Unknown error occurred", call.isRTL, call.currentLanguage,
                             messages)
    /\ chatRequests' = Tail(chatRequests)
    /\ UNCHANGED <<inputValue, apiKey, sends, generateCalls, sentIn>>
    /\ UNCHANGED <<page, notChatVars, uploaderVars, demoVars>>
    /\ UNCHANGED <<i18nVars, wizardVars, toolVars>>

GenerateContentSettles == \E outcome \in GenerateOutcomes : generateContentSettles(outcome)

\* lines 264-269
clearChat ==
    /\ page = "ChatWidget"
    /\ messages # <<>> \/ error # ""
    /\ messages' = <<>>
    /\ error' = ""
    /\ UNCHANGED <<inputValue, isLoading, apiKey, chatRequests, sends, generateCalls,
                   chatFailures, sentIn>>
    /\ UNCHANGED <<page, notChatVars, uploaderVars, demoVars>>
    /\ UNCHANGED <<i18nVars, wizardVars, toolVars>>

InitChat ==
    /\ page = "ChatWidget"
    /\ InitialPageState
    /\ InitialWizardState
    /\ NoUploader
    /\ InitialChatState
    /\ apiKey \in BOOLEAN
    /\ InitialDemoState
    /\ NoI18n
    /\ NoTool

\* The language switcher of the page stays usable while the widget is open
NextChat ==
    \/ TypeInput \/ sendMessage \/ GenerateContentSettles \/ clearChat
    \/ SwitchLanguage

SpecChat == InitChat /\ [][NextChat]_vars

-----------------------------------------------------------------------------
(* Demo: src/src/lib/i18n-utils.ts lines 262-848                           *)

\* lines 288-310; probabilities in ten-thousandths
mockResults ==
    << [id |-> "KIC-12345678", probability |-> 9400, status |-> "planet"],
       [id |-> "TIC-87654321", probability |-> 200, status |-> "no_planet"],
       [id |-> "KIC-11223344", probability |-> 7800, status |-> "candidate"] >>

\* lines 379-391, for a threshold th in hundredths: the key of the label
StatusBadge(status, probability, th) ==
    IF probability >= th * 100 /\ status = "planet" THEN "demo.status.confirmedPlanet"
    ELSE IF probability < th * 100 \/ status = "no_planet" THEN "demo.status.noPlanet"
    ELSE "demo.status.planetCandidate"

getStatusBadge(status, probability) == StatusBadge(status, probability, threshold)

notDemoVars == <<i18nVars, pageVars, wizardVars, toolVars, uploaderVars, chatVars>>

demoUnchanged == UNCHANGED <<notDemoVars, sandboxVars>>

\* lines 481-487: the threshold slider, from 0 to 1 in steps of 0.01
setThreshold(value) ==
    /\ page = "Demo"
    /\ value # threshold
    /\ threshold' = value
    /\ UNCHANGED <<learningRate, epochs, jobRunning, jobProgress, jobResults, jobIntervals>>
    /\ demoUnchanged

\* Positions of the slider on both sides of every probability listed
Thresholds == {0, 50, 78, 79, 94, 95, 100}

MoveThreshold == \E value \in Thresholds : setThreshold(value)

LearningRates == {1, 10, 100}

EpochsValues == {10, 50}

\* lines 662-670 and 689-697: the learning rate and epochs sliders
setParameters(lr, ep) ==
    /\ page = "Demo"
    /\ <<lr, ep>> # <<learningRate, epochs>>
    /\ learningRate' = lr /\ epochs' = ep
    /\ UNCHANGED <<threshold, jobRunning, jobProgress, jobResults, jobIntervals>>
    /\ demoUnchanged

MoveParameters == \E lr \in LearningRates, ep \in EpochsValues : setParameters(lr, ep)

\* lines 400-408: a click on Train / Classify, disabled while jobRunning
handleRunJob ==
    /\ page = "Demo" /\ ~jobRunning
    /\ jobRunning' = TRUE
    /\ jobProgress' = 0
    /\ jobResults' = <<>>
    /\ jobIntervals' = Append(jobIntervals,
                              [current |-> 0, learningRate |-> learningRate,
                               epochs |-> epochs])
    /\ UNCHANGED <<threshold, learningRate, epochs>>
    /\ demoUnchanged

\* Math.max(lo, Math.min(hi, x))
Clamp(lo, hi, x) == IF x < lo THEN lo ELSE IF x > hi THEN hi ELSE x

\* lines 429-435
shuffled(lr) ==
    [n \in 1..Len(mockResults) |->
        [mockResults[n] EXCEPT
            !.probability = Clamp(0, 10000, mockResults[n].probability + (lr - 10) * 5)]]

\* lines 408-440: one callback of the interval
jobInterval ==
    /\ page = "Demo" /\ jobIntervals # <<>>
    /\ LET job == Head(jobIntervals)
           step == IF RoundDiv(job.epochs, 5) > 1 THEN RoundDiv(job.epochs, 5) ELSE 1
           current == job.current + step
       IN  IF current >= 100
           THEN /\ jobIntervals' = Tail(jobIntervals)
                /\ jobResults' = shuffled(job.learningRate)
                /\ jobRunning' = FALSE
                /\ jobProgress' = 100
           ELSE /\ jobIntervals' = <<[job EXCEPT !.current = current]>> \o Tail(jobIntervals)
                /\ jobProgress' = current
                /\ UNCHANGED <<jobResults, jobRunning>>
    /\ UNCHANGED <<threshold, learningRate, epochs>>
    /\ demoUnchanged

InitDemo ==
    /\ page = "Demo"
    /\ InitialPageState
    /\ InitialWizardState
    /\ NoUploader
    /\ NoChat
    /\ InitialDemoState
    /\ NoI18n
    /\ NoTool

NextDemo == MoveThreshold \/ MoveParameters \/ handleRunJob \/ jobInterval

SpecDemo == InitDemo /\ [][NextDemo]_vars

-----------------------------------------------------------------------------
(* Demo, Advanced Sandbox: parseCsvLightCurve and the dataset card         *)
(* src/src/lib/i18n-utils.ts lines 312-331, 393-398, 629-648, 717-724      *)
(* A text is the sequence of its lines (text.split(/\r?\n/)); a line is a  *)
(* sequence of pieces: separators, digits and words.                       *)

Whitespace == {" ", "\t"}

Digits == {"0", "1", "2", "3", "4", "5", "6", "7", "8", "9"}

DigitValue(c) ==
    CASE c = "0" -> 0 [] c = "1" -> 1 [] c = "2" -> 2 [] c = "3" -> 3 [] c = "4" -> 4
      [] c = "5" -> 5 [] c = "6" -> 6 [] c = "7" -> 7 [] c = "8" -> 8 [] c = "9" -> 9

\* String.prototype.toLowerCase on a piece
toLowerCase(piece) ==
    CASE piece = "Time" -> "time"
      [] piece = "TIME" -> "time"
      [] piece = "Flux" -> "flux"
      [] piece = "FLUX" -> "flux"
      [] piece = "Infinity" -> "infinity"
      [] piece = "X" -> "x"
      [] OTHER -> piece

\* line.toLowerCase().includes(word): no word is spread over several pieces
includes(line, word) == \E n \in 1..Len(line) : toLowerCase(line[n]) = word

\* l.trim().length > 0
NotBlank(line) == \E n \in 1..Len(line) : line[n] \notin Whitespace

\* line 316
NonBlankLines(text) == SelectSeq(text, NotBlank)

\* The length of the match of /,|\t|\s+/ that starts at piece n (0: none)
RECURSIVE SpaceRun(_, _)
SpaceRun(line, n) ==
    IF n > Len(line) \/ line[n] \notin Whitespace THEN 0
    ELSE 1 + SpaceRun(line, n + 1)

MatchLength(line, n) ==
    IF line[n] = "," \/ line[n] = "\t" THEN 1 ELSE SpaceRun(line, n)

\* line.split(/,|\t|\s+/): the fields, the empty ones included
RECURSIVE splitFrom(_, _, _)
splitFrom(line, n, field) ==
    IF n > Len(line) THEN <<field>>
    ELSE IF MatchLength(line, n) > 0
         THEN <<field>> \o splitFrom(line, n + MatchLength(line, n), <<>>)
         ELSE splitFrom(line, n + 1, Append(field, line[n]))

split(line) == splitFrom(line, 1, <<>>)

NonEmpty(field) == field # <<>>

\* line 323: .filter(Boolean)
Parts(line) == SelectSeq(split(line), NonEmpty)

Infinite == -3

\* Number(field) for a field of digits and words
RECURSIVE Decimal(_)
Decimal(field) ==
    IF field = <<>> THEN 0
    ELSE 10 * Decimal(SubSeq(field, 1, Len(field) - 1)) + DigitValue(field[Len(field)])

Number(field) ==
    IF \A n \in 1..Len(field) : field[n] \in Digits THEN Decimal(field)
    ELSE IF field = <<"Infinity">> THEN Infinite
    ELSE NaN

isFinite(x) == x # NaN /\ x # Infinite

\* lines 322-329: the loop over the lines from startIndex on
RECURSIVE parseLines(_, _)
parseLines(lines, i) ==
    IF i > Len(lines) THEN <<>>
    ELSE LET parts == Parts(lines[i])
         IN  IF Len(parts) < 2 THEN parseLines(lines, i + 1)
             ELSE IF isFinite(Number(parts[1])) /\ isFinite(Number(parts[2]))
                  THEN <<[time |-> Number(parts[1]), flux |-> Number(parts[2])]>>
                           \o parseLines(lines, i + 1)
                  ELSE parseLines(lines, i + 1)

\* lines 313-331
parseCsvLightCurve(text) ==
    LET lines == NonBlankLines(text)
    IN  IF Len(lines) = 0 THEN <<>>
        ELSE LET maybeHeader == lines[1]
                 startIndex == IF includes(maybeHeader, "time") /\ includes(maybeHeader, "flux")
                               THEN 2 ELSE 1
             IN  parseLines(lines, startIndex)

\* lines 393-398, from the point where file.text() has resolved
handleUpload(file) ==
    /\ page = "Demo"
    /\ LET parsed == parseCsvLightCurve(file.text)
       IN  /\ uploadedName' = file.name
           /\ uploadedCurve' = parsed
           /\ uploadedText' = file.text
    /\ UNCHANGED <<threshold, learningRate, epochs, jobRunning, jobProgress, jobResults,
                   jobIntervals>>
    /\ UNCHANGED notDemoVars

\* lines 717-724: the Reset button
resetSandbox ==
    /\ page = "Demo"
    /\ uploadedName # ""
    /\ uploadedCurve' = <<>>
    /\ uploadedName' = ""
    /\ jobResults' = <<>>
    /\ UNCHANGED <<threshold, learningRate, epochs, jobRunning, jobProgress, jobIntervals,
                   uploadedText>>
    /\ UNCHANGED notDemoVars

\* The 'time,flux' header
HeaderLine == <<"time", ",", "flux">>

\* Rows of a file: points, rows that are no point, and headers in other spellings
CsvRows ==
    { <<"1", ",", "2">>,
      <<"2", "\t", "1", "0">>,
      <<" ", "5", ",", " ", " ", "6", " ">>,
      <<"1">>,
      <<"x", ",", "1">>,
      <<"1", ",", "Infinity">>,
      <<" ">>,
      <<"Time", " ", "FLUX">>,
      <<"1", ",", "2", ",", "time", " ", "flux">> }

MaxRows == 2

CsvTexts == UNION {[1..n -> CsvRows] : n \in 0..MaxRows}

CsvFiles == [name : {"curve.csv"}, text : CsvTexts \cup {<<HeaderLine>> \o rows : rows \in CsvTexts}]

Upload == \E file \in CsvFiles : handleUpload(file)

InitSandbox == InitDemo

NextSandbox == Upload \/ resetSandbox

SpecSandbox == InitSandbox /\ [][NextSandbox]_vars

-----------------------------------------------------------------------------
(* The components that call a backend, side by side                        *)
(* DataUpload.tsx 135-216, Adversarial.tsx 51-113, Quantum.tsx 47-108,     *)
(* ChatWidget.tsx 141-255                                                  *)

InitBackend == InitPages \/ InitChat

\* The pages are modelled without the language switcher
NextBackend == NextPages \/ (page = "ChatWidget" /\ NextChat)

SpecBackend == InitBackend /\ [][NextBackend]_vars

-----------------------------------------------------------------------------
(* Pending execution contexts, by the state they will write                *)

Count(S) == Cardinality(S)

\* DataUpload.tsx lines 144 and 163: the progress interval of every call, and
\* the continuation of every call that still awaits its upload request
WritersUploadProgress ==
    Count({k \in 1..MaxUploads : uploads[k].interval})
    + Count({k \in 1..MaxUploads : uploads[k].phase = "upload"})

\* DataUpload.tsx lines 170-171, 187-190, 215: the continuation of every call
\* of uploadAndAnalyze in flight, and of every create_embeddings request
WritersUploadStatus ==
    Count({k \in 1..MaxUploads : uploads[k].phase \in {"upload", "analysis"}})
    + actionsInFlight

\* Adversarial.tsx lines 59, 78-113: every call of the Launch handler in flight
WritersResults == Count({r \in 1..MaxRuns : runs[r].phase # "idle"})

\* part_004 lines 368-376: every interval of startTraining
WritersTraining == Len(trainingIntervals)

\* part_004 lines 351-352, 384-385: every pending timeout of selectDemoDataset
WritersStep == Len(demoTimers) + Len(wizardUploads)

-----------------------------------------------------------------------------
(* Properties                                                              *)

StartupPriority ==
    pc = "ready" =>
        /\ (queryLang # "" => currentLang = queryLang)
        /\ (queryLang = "" /\ storedAtLoad # "" => currentLang = storedAtLoad)
        /\ (queryLang = "" /\ storedAtLoad = "" /\ detectedLang # ""
                => currentLang = detectedLang)
        /\ (queryLang = "" /\ storedAtLoad = "" /\ detectedLang = ""
                => currentLang = "en")
        /\ (lastOp = "startup" /\ currentLang \in supportedLngs
                => language = currentLang)
        /\ (lastOp = "startup" /\ queryLang = "" /\ storedAtLoad = "ar"
                => language = "ar")

\* reached: a page load with "ar" stored, no query parameter, "en" detected
WitnessStartupPriority ==
    /\ lastOp = "startup" /\ queryLang = "" /\ storedAtLoad = "ar"
    /\ detectedLang = "en" /\ language = "ar" /\ currentLang = "ar"

\* C3: after every language change localStorage["preferred-language"] is the
\* language changed to, which is the language selected whenever the selected
\* language is a supported one; this includes the change made at start-up.
PreferenceStored ==
    /\ lastOp = "languageChanged" =>
          /\ preferredLanguage = language
          /\ (requested \in supportedLngs => preferredLanguage = requested)
    /\ lastOp = "startup" /\ currentLang # detectedLang =>
          preferredLanguage = language

\* reached: a second switch, to Spanish, overwrote the stored preference
WitnessPreferenceStored ==
    /\ lastOp = "languageChanged" /\ switches >= 2
    /\ requested = "es" /\ preferredLanguage = "es" /\ storedAtLoad = "ar"

\* C4: every backend call that fails (the fetch throws or the response is
\* not OK) ends with the component holding mock results or an error to show
\* in its inline alert.
FailedCallsHandled ==
    lastCall.outcome \in Failures => (results = "mock" \/ error # "")

TrainingProgressCounts ==
    /\ [](trainingProgress \in 0..100)
    /\ [][startTraining => trainingProgress' = 0 /\ isTraining']_vars
    /\ [][TrainingTick /\ trainingProgress < 100
            => trainingProgress' = trainingProgress + 2]_vars
    /\ [][TrainingTick /\ trainingProgress = 100
            => trainingIntervals' = <<>> /\ ~isTraining'
               /\ trainingProgress' = 100]_vars
    /\ [][trainingProgress = 100 => trainingProgress' = 100]_vars

\* reached: the training has run to its end
WitnessTrainingProgressCounts ==
    /\ trainingProgress = 100 /\ ~isTraining /\ trainingIntervals = <<>>
    /\ completedSteps # <<>> /\ completedSteps[Len(completedSteps)] = 3

-----------------------------------------------------------------------------
(* Properties of the locale tooling                                        *)

Range(seq) == {seq[i] : i \in DOMAIN seq}

\* The dot-joined paths of the leaves of a locale file, as a set
RECURSIVE LeafPathsOf(_)
LeafPathsOf(f) ==
    UNION {IF IsObject(f[k]) THEN {k \o p : p \in LeafPathsOf(f[k].o)} ELSE {k}
           : k \in DOMAIN f}

LeafPaths(data) == LeafPathsOf(data.o)

\* What a dot-joined path leads to when every dot of it is a level of nesting
RECURSIVE ValueAt(_, _)
ValueAt(v, path) ==
    IF path = <<>> THEN v
    ELSE IF v.t = "o" /\ <<Head(path)>> \in DOMAIN v.o
         THEN ValueAt(v.o[<<Head(path)>>], Tail(path))
         ELSE Undefined

\* The leaves of a locale file: pairs of the keys leading to one and its value
RECURSIVE EntriesOf(_)
EntriesOf(f) ==
    UNION {IF IsObject(f[k])
           THEN {<< <<k>> \o e[1], e[2] >> : e \in EntriesOf(f[k].o)}
           ELSE {<< <<k>>, f[k] >>}
           : k \in DOMAIN f}

Entries(data) == EntriesOf(data.o)

AuditPassed == script \in {"sh", "js"} /\ toolPc = "done" /\ exitCode = 0

\* C7: when the audit ends with exit status 0, every leaf key of en.json is
\* a leaf key of ar.json.
AuditPassMeansNoKeyMissing ==
    AuditPassed => LeafPaths(enData) \subseteq LeafPaths(arData)

\* C8: when the audit ends and the Arabic coverage_percentage of the report
\* it generated is a number below 95, the exit status is not 0.
AuditFailsBelowRequiredCoverage ==
    (/\ script \in {"sh", "js"} /\ toolPc = "done" /\ report # Absent
     /\ report.languages.ar.coverage_percentage # JsonNull
     /\ report.languages.ar.coverage_percentage < RequiredCoverage * 100)
    => exitCode # 0

NoEntryFor(r, data) ==
    LET noEntry == {p \in LeafPaths(enData) : p \notin LeafPaths(data)}
    IN  Range(r.missing_keys) = noEntry /\ r.keys_missing = Cardinality(noEntry)

\* C9 as stated: missing_keys is exactly the set of leaf paths of en.json
\* that are no leaf path of ar.json, and keys_missing its size (likewise es).
MissingKeysHaveNoEntry ==
    report # Absent =>
        /\ NoEntryFor(report.languages.ar, OrEmpty(arData))
        /\ NoEntryFor(report.languages.es, OrEmpty(esData))

NoValueFor(r, data) ==
    LET noValue == {p \in LeafPaths(enData) : Falsy(ValueAt(data, p))}
    IN  /\ Range(r.missing_keys) = noValue
        /\ r.keys_missing = Len(r.missing_keys)
        /\ Len(deepKeys(enData)) = Cardinality(LeafPaths(enData))
              => r.keys_missing = Cardinality(noValue)

\* C9 amended: missing_keys lists the leaf paths of en.json that, followed
\* through the nested objects of ar.json with every dot a level, lead to no
\* value or to an empty one; keys_missing is the length of the list, and the
\* size of that set when no two leaves of en.json have the same path
\* (likewise es).
MissingKeysHaveNoValue ==
    report # Absent =>
        /\ NoValueFor(report.languages.ar, OrEmpty(arData))
        /\ NoValueFor(report.languages.es, OrEmpty(esData))

\* A report that lists a key ar.json holds with an empty value and a key
\* ar.json does not hold
WitnessMissingKeysHaveNoValue ==
    /\ report # Absent
    /\ \E p, q \in Range(report.languages.ar.missing_keys) :
          /\ p \in LeafPaths(arData) /\ ValueAt(arData, p) = Str(<<>>)
          /\ q \notin LeafPaths(arData)
    /\ report.languages.ar.keys_missing = 2

\* C10: every leaf with a non-empty value that ar.json held before
\* auto_translate ran is a leaf of the ar.json it wrote, under the same keys
\* and with the same value.
TranslatePreservesExisting ==
    (script = "translate" /\ toolPc = "done" /\ exitCode = 0 /\ arBefore # Absent)
    => {e \in Entries(arBefore) : Truthy(e[2])} \subseteq Entries(arData)

\* C11: after auto_translate ends with exit status 0, every leaf key of
\* en.json leads to a non-empty value in the ar.json it wrote, and the report
\* generated from these files lists no missing Arabic key.
TranslateLeavesNoKeyMissing ==
    (script = "translate" /\ toolPc = "done" /\ exitCode = 0)
    => /\ \A p \in LeafPaths(enData) : Truthy(ValueAt(arData, p))
       /\ Report(enData, arData, esData).languages.ar.missing_keys = <<>>

\* The exit status of one audit script from Step 2 on, for given files
AuditStatus(s, en, ar, es, missing) ==
    IF en = Absent \/ ar = Absent THEN 1
    ELSE IF s = "sh" /\ MissingFailsSh(missing) THEN 1
    ELSE IF s = "js" /\ MissingFailsJs(missing) THEN 1
    ELSE IF s = "sh" /\ TestLessThan(CoverageSh(Report(en, ar, es)), RequiredCoverage)
         THEN 1
    ELSE IF s = "js" /\ CoverageJs(Report(en, ar, es)) < RequiredCoverage THEN 1
    ELSE 0

OtherScript(s) == IF s = "sh" THEN "js" ELSE "sh"

\* C12: when one audit script has generated the report and ended, the other
\* script, run from Step 2 on the same en.json, ar.json, es.json and
\* ar.missing.json, passes exactly if this one passed.
AuditScriptsAgree ==
    (script \in {"sh", "js"} /\ toolPc = "done" /\ report # Absent)
    => (exitCode = 0
        <=> AuditStatus(OtherScript(script), enData, arData, esData, missingFile) = 0)

\* C13: every file DataUploader has processed (onDataUploaded was called
\* with its preview) has an accepted extension and an allowed size, however
\* it arrived.
OnlyValidFilesProcessed ==
    \A n \in 1..Len(onDataUploadedCalls) :
        onDataUploadedCalls[n].extAccepted /\ onDataUploadedCalls[n].sizeAllowed

-----------------------------------------------------------------------------
(* Properties of the widgets                                               *)

Last(seq) == seq[Len(seq)]

IsErrorMessage(m) ==
    /\ m.role = "assistant"
    /\ m.content \in {"Sorry, an error occurred", "ar:Sorry, an error occurred"}

ErrorMessages(msgs) == Cardinality({n \in 1..Len(msgs) : IsErrorMessage(msgs[n])})

\* The step is a failed chat request: the catch block of sendMessage ran
ChatRequestFails == chatFailures' # chatFailures

\* What every failed chat request does, whatever the language
FailureReported ==
    /\ error' # ""
    /\ isLoading' = FALSE
    /\ messages' # <<>> /\ IsErrorMessage(Last(messages'))
    /\ ErrorMessages(messages') = ErrorMessages(messages) + 1

\* C14 as stated: a failed chat request sets error, appends exactly one
\* assistant error message, which is the Arabic one when the UI language is
\* 'ar', and sets isLoading to false.
ChatFailureInUiLanguage ==
    [][ChatRequestFails =>
          /\ FailureReported
          /\ language' = "ar" => Last(messages').content = "ar:Sorry, an error occurred"
      ]_vars

\* C14 amended: a failed chat request sets error, appends exactly one
\* assistant error message, which is the Arabic one exactly when the UI
\* language was 'ar' when the message was sent, and sets isLoading to false.
ChatFailureInSendLanguage ==
    [][ChatRequestFails =>
          /\ FailureReported
          /\ sentIn' = "ar" <=> Last(messages').content = "ar:Sorry, an error occurred"
      ]_vars

\* A request sent in Arabic has failed after the language was switched away
WitnessChatFailureInSendLanguage ==
    /\ chatFailures > 0 /\ sentIn = "ar" /\ language # "ar"
    /\ generateCalls > 0 /\ chatRequests = <<>> /\ ~isLoading
    /\ error = "Unknown error occurred"
    /\ messages # <<>> /\ Last(messages).content = "ar:Sorry, an error occurred"

\* C15: a click on Next (enabled only before the last step) moves to the
\* following step and appends the step left to completedSteps; a click on
\* Previous (enabled only after the first step) moves back one step and
\* leaves completedSteps as it is.
WizardNavigation ==
    [][/\ nextStep =>
             /\ currentStep < Len(STEPS) - 1
             /\ currentStep' = currentStep + 1
             /\ completedSteps' = Append(completedSteps, currentStep)
       /\ prevStep =>
             /\ currentStep > 0
             /\ currentStep' = currentStep - 1
             /\ completedSteps' = completedSteps
      ]_vars

\* Next was clicked on welcome, then Previous on upload; no timer took part
WitnessWizardNavigation ==
    /\ page = "Onboarding" /\ stepId = "welcome" /\ completedSteps = <<0>>
    /\ demoTimers = <<>> /\ selectedDataset = "" /\ trainingIntervals = <<>>

-----------------------------------------------------------------------------
(* Properties of the i18n layer, continued                                 *)

\* i18n.changeLanguage has been called, by the start-up code or a switch
LanguageChanged == pc = "ready" /\ requested # ""

\* C16 as stated: in a document with a title element, after a language
\* change the title is the Arabic title when the language is 'ar' and the
\* title the page was loaded with otherwise.
TitleFollowsLanguage ==
    (LanguageChanged /\ hasTitle) =>
        titleText = IF language = "ar" THEN "ExoPlanetAI - ar" ELSE titleAtLoad

\* C16 amended: the same in a document whose title element is not empty;
\* an empty title stays empty in every language.
TitleFollowsLanguageWhenNotEmpty ==
    (LanguageChanged /\ hasTitle) =>
        titleText = IF titleAtLoad = "" THEN ""
                    ELSE IF language = "ar" THEN "ExoPlanetAI - ar"
                    ELSE titleAtLoad

\* Back in a non-Arabic language after Arabic was stored as the preference
\* by an earlier change: the title is the one the page was loaded with
WitnessTitleFollowsLanguageWhenNotEmpty ==
    /\ LanguageChanged /\ hasTitle /\ titleAtLoad = "ExoPlanetAI"
    /\ switches >= 2 /\ language = "es" /\ titleText = "ExoPlanetAI"
    /\ originalTitle = "ExoPlanetAI" /\ storedAtLoad = "ar" /\ queryLang = ""

-----------------------------------------------------------------------------
(* Properties of the locale tooling, continued                             *)

ContainsModelName(text) ==
    \E i \in DOMAIN text :
        text[i] \in {"TabKANet", "QSVC", "CNN", "RNN", "LSTM", "GAN", "VAE"}

\* C17: translating to Arabic a string of en.json that contains a model name
\* returns the string itself, and deepTranslate holds it as a plain string
\* under its key, not as an entry marked as auto-translated.
ModelNamesStayEnglish ==
    enData # Absent =>
        \A e \in Entries(enData) :
            (e[2].t = "s" /\ ContainsModelName(e[2].s)) =>
                /\ translateText(e[2].s, "ar") = e[2].s
                /\ e \in EntriesOf(deepTranslate(enData.o, "ar"))

\* auto_translate has written an ar.json that had no entries before, and a
\* sentence with a model name in it went into it as it is in en.json
WitnessModelNamesStayEnglish ==
    /\ script = "translate" /\ toolPc = "done" /\ exitCode = 0
    /\ arBefore = EmptyObject
    /\ <<"a">> \in DOMAIN enData.o /\ enData.o[<<"a">>] = Str(<<"Train a ", "CNN", "s">>)
    /\ arData.o[<<"a">>] = Str(<<"Train a ", "CNN", "s">>)

-----------------------------------------------------------------------------
(* Properties of the widgets, continued                                    *)

\* The results the two tabs of the Demo list
Listed(list) == Range(mockResults) \cup Range(list)

\* C18: a change of the threshold leaves every listed result and its
\* probability as they are, and a result whose label changes moves between
\* 'confirmed planet' and 'planet candidate'.
ThresholdOnlyRelabels ==
    [][threshold' # threshold =>
          /\ jobResults' = jobResults
          /\ \A r \in Listed(jobResults) :
                StatusBadge(r.status, r.probability, threshold')
                    # StatusBadge(r.status, r.probability, threshold)
                => {StatusBadge(r.status, r.probability, threshold),
                    StatusBadge(r.status, r.probability, threshold')}
                      = {"demo.status.confirmedPlanet", "demo.status.planetCandidate"}
      ]_vars

\* The text of a file without its leading 'time,flux' header, if it has one
WithoutHeader(text) == IF text # <<>> /\ Head(text) = HeaderLine THEN Tail(text) ELSE text

\* One point per row whose first two fields are finite numbers, in the order
\* of the rows
RECURSIVE PointsOf(_)
PointsOf(rows) ==
    IF rows = <<>> THEN <<>>
    ELSE LET parts == Parts(Head(rows))
         IN  (IF Len(parts) >= 2 /\ isFinite(Number(parts[1])) /\ isFinite(Number(parts[2]))
              THEN <<[time |-> Number(parts[1]), flux |-> Number(parts[2])]>>
              ELSE <<>>) \o PointsOf(Tail(rows))

\* C19: the curve read from a file is the list of the points of its rows,
\* whether or not the rows follow a 'time,flux' header, and the same rows with
\* the header put in front give the same list.
CsvHeaderOptional ==
    uploadedName # "" =>
        /\ uploadedCurve = PointsOf(WithoutHeader(uploadedText))
        /\ parseCsvLightCurve(<<HeaderLine>> \o WithoutHeader(uploadedText)) = uploadedCurve

\* The answers that count as a failed backend call
FailedOutcomes == Failures \cup {"badjson"}

\* The calls of uploadAndAnalyze and of a Launch handler other than k keep
\* their place
OtherUploadsKept(k) == \A j \in 1..MaxUploads : j # k => uploads'[j] = uploads[j]

OtherRunsKept(r) == \A j \in 1..MaxRuns : j # r => runs'[j] = runs[j]

\* The step handles a failed answer and with it the call is over: its request
\* is not in flight any more and no other request was started
FailedCallIsOver ==
    /\ (lastCall'.handler = "uploadAndAnalyze" /\ lastCall'.outcome \in FailedOutcomes) =>
          \E k \in 1..MaxUploads :
              /\ uploads[k].phase \in {"upload", "analysis"}
              /\ uploads'[k].phase = "done"
              /\ OtherUploadsKept(k)
    /\ (lastCall'.handler = "Launch" /\ lastCall'.outcome \in FailedOutcomes) =>
          \E r \in 1..MaxRuns :
              /\ runs[r].phase = "fetch"
              /\ runs'[r].phase = "idle"
              /\ OtherRunsKept(r)
    /\ (lastCall'.handler = "handleActionClick" /\ lastCall'.outcome \in FailedOutcomes) =>
          actionsInFlight' = actionsInFlight - 1
    /\ chatFailures' > chatFailures =>
          /\ generateCalls' = generateCalls
          /\ Len(chatRequests') <= Len(chatRequests)

\* A request is started once per call: the upload request by the drop of a
\* file, the profile request after the answer to that upload, the request of a
\* Launch handler after its loop, the chat request by a Send
OneRequestPerAction ==
    /\ \A k \in 1..MaxUploads :
          /\ (uploads'[k].phase = "upload" /\ uploads[k].phase # "upload") =>
                uploads[k].phase = "idle" /\ uploadedFile' = k /\ lastCall' = NoCall
          /\ (uploads'[k].phase = "analysis" /\ uploads[k].phase # "analysis") =>
                uploads[k].phase = "upload" /\ lastCall'.outcome = "ok"
          /\ uploads[k].phase = "done" => uploads'[k].phase = "done"
    /\ \A r \in 1..MaxRuns :
          /\ (runs'[r].phase = "fetch" /\ runs[r].phase # "fetch") =>
                runs[r].phase = "loop" /\ lastCall' = NoCall
          /\ (runs'[r].phase = "loop" /\ runs[r].phase # "loop") =>
                runs[r].phase = "idle" /\ ~isProcessing /\ lastCall' = NoCall
          /\ runs[r].phase = "fetch" => runs'[r].phase \in {"fetch", "idle"}
    /\ actionsInFlight' > actionsInFlight =>
          actionsInFlight' = actionsInFlight + 1 /\ lastCall' = NoCall
    /\ generateCalls' # generateCalls =>
          generateCalls' = generateCalls + 1 /\ sends' = sends + 1

\* C20: the step that handles a failed backend call starts no request, and
\* every request is started by one user action (a file drop, a click on an
\* action or on Launch, a Send), once for each endpoint.
NoRetry == [][FailedCallIsOver /\ OneRequestPerAction]_vars

WitnessNoRetry ==
    /\ lastCall.handler = "uploadAndAnalyze" /\ lastCall.outcome = "throw"
    /\ \A k \in 1..MaxUploads : uploads[k].phase \in {"idle", "done"}

\* C21: while the wizard is on screen, currentStep is the index of one of
\* its steps.
CurrentStepInRange == page = "Onboarding" => currentStep \in 0..(Len(STEPS) - 1)

\* The message uploadAndAnalyze catches when the request of the given phase
\* ends in the given failure
FailureMessage(phase, outcome) ==
    CASE outcome = "throw" -> "network"
      [] outcome = "badjson" -> "json"
      [] phase = "upload" -> "Upload failed"
      [] OTHER -> "Analysis failed"

TranslatedShare(r, total) == RoundDiv((total - Len(r.missing_keys)) * 10000, total)

CoverageAsStated(r, total) ==
    /\ r.coverage_percentage = TranslatedShare(r, total)
    /\ r.coverage_percentage >= 0 /\ r.coverage_percentage <= 10000
    /\ r.coverage_percentage = 10000 <=> r.missing_keys = <<>>

\* C23: in a report on an en.json with keys, coverage_percentage of Arabic
\* and of Spanish is 100 times the share of the English keys that have a value
\* in the language, lies between 0 and 100 and is 100 exactly when
\* missing_keys is empty.
CoverageIsTranslatedShare ==
    (report # Absent /\ report.total_keys > 0) =>
        /\ CoverageAsStated(report.languages.ar, report.total_keys)
        /\ CoverageAsStated(report.languages.es, report.total_keys)

=============================================================================
